---- MODULE Spec2Model ----
\* A model of main.py: the Yahoo Finance fetch (fetch_stock_data), the web
\* search placeholder (search_web_for_stock), the report generation
\* (generate_report_with_llm) and the "Analyze Stock" button handler.
EXTENDS Integers, Sequences, FiniteSets, TLC

VARIABLES
    GROQ_API_KEY_SET,     \* main.py:15/18  module-level flag
    client,               \* main.py:14/19  "Groq" (a client object) or "None"
    pc,                   \* position of the script / of the function under test
    ticker_symbol_input,  \* main.py:324    the sidebar text input
    provider,             \* what yfinance answers during the current fetch
    stock_data,           \* main.py:334    the snapshot, or PyNone
    web_search_results,   \* main.py:378
    llm_report,           \* main.py:391
    prompt,               \* main.py:246    the prompt of the last report call
    banners,              \* the st.error / st.warning messages of this run
    calls,                \* how often each stage / outbound request ran this run
    raised,               \* the exception that escaped to Streamlit, or "none"
    resanitized           \* the sanitization loop applied to its own output

vars == <<GROQ_API_KEY_SET, client, pc, ticker_symbol_input, provider, stock_data,
          web_search_results, llm_report, prompt, banners, calls, raised, resanitized>>

-----------------------------------------------------------------------------
\* Python values. t is type(value).__name__; first is the type of value[0]
\* for a non-empty list ("none" otherwise); dumps is what json.dumps does on
\* the value; v is the text of a str (a sequence whose elements count as its
\* characters) or the identity of any other value.

PyValue(t, first, dumps, v) == [t |-> t, first |-> first, dumps |-> dumps, v |-> v]
PyStr(s)  == PyValue("str", "none", "ok", <<s>>)
PyNone    == PyValue("NoneType", "none", "ok", <<"None">>)

\* str(value): a str stays itself, anything else becomes the text of its repr.
str(value) ==
    IF value.t = "str" THEN value
    ELSE PyValue("str", "none", "ok", <<"repr", value.t, value.first, value.dumps>> \o value.v)

\* isinstance(value, (str, int, float, bool, type(None)))
IsScalar(value) == value.t \in {"str", "int", "float", "bool", "NoneType"}

\* Values a provider response can hold under a key.
ProviderValues ==
    { PyStr("Apple Inc."),
      PyNone,
      PyValue("int", "none", "ok", <<"3000000000">>),
      PyValue("dict", "none", "ok", <<"{'a': 1}">>),
      PyValue("list", "none", "ok", <<"[]">>),
      PyValue("list", "dict", "ok", <<"[{'name': 'Cook'}]">>),
      PyValue("list", "dict", "TypeError", <<"[{'since': datetime}]">>),
      PyValue("list", "other", "TypeError", <<"[datetime]">>),
      PyValue("object", "none", "TypeError", <<"datetime">>),
      PyValue("list", "dict", "ValueError", <<"[{'self': ...}]">>) }

-----------------------------------------------------------------------------
\* Bounds of the model.

\* The most keys a provider info mapping holds.
MaxInfoKeys == 2

\* How far past the slice bound of main.py:218 the longest business summary
\* reaches.
MaxSummaryExcess == 2

\* The keys a provider info mapping may hold: listed keys, the business
\* summary, and a key outside relevant_info_keys.
ProviderKeys == {"symbol", "longName", "longBusinessSummary", "companyOfficers"}

\* What the user can leave in the ticker box.
Tickers == {"", "AAPL"}

-----------------------------------------------------------------------------
\* fetch_stock_data

\* The loop body with a scalar test that forgets str and a conversion by
\* repr, which quotes a str and so never returns its argument.
SanitizeValueAlt(value) ==
    IF value.t \in {"int", "float", "bool", "NoneType"} THEN value
    ELSE PyValue("str", "none", "ok", <<"repr", value.t, value.first, value.dumps>> \o value.v)

\* One pass of the loop body over one value (main.py:38-48).
SanitizeValue(value) ==
    IF value.t = "list" /\ value.first = "dict"
    THEN IF value.dumps = "TypeError" THEN str(value) ELSE value
    ELSE IF ~IsScalar(value)
         THEN IF value.dumps = "TypeError" THEN str(value) ELSE value
         ELSE value

\* json.dumps raises something that is no TypeError (a circular reference is
\* a ValueError): neither inner except clause catches it.
SanitizeRaises(info) ==
    \E k \in DOMAIN info : ~IsScalar(info[k]) /\ info[k].dumps = "ValueError"

\* The loop of main.py:37-48 over the whole mapping, assigning in place.
sanitize(info) == [k \in DOMAIN info |-> SanitizeValue(info[k])]

\* info.get(key, default)
Get(info, key, default) == IF key \in DOMAIN info THEN info[key] ELSE default

relevant_info_keys ==
    <<"symbol", "longName", "sector", "industry", "country", "website",
      "marketCap", "enterpriseValue", "trailingPE", "forwardPE",
      "dividendYield", "beta", "52WeekChange", "shortRatio",
      "currentPrice", "targetHighPrice", "targetLowPrice", "targetMeanPrice",
      "recommendationKey", "numberOfAnalystOpinions">>

RelevantKeySet == {relevant_info_keys[i] : i \in 1..Len(relevant_info_keys)}

\* The comprehension filtered on the keys the response holds.
brief_infoAlt(info) == [k \in RelevantKeySet \cap DOMAIN info |-> info[k]]

\* main.py:100
brief_info(info) == [k \in RelevantKeySet |-> Get(info, k, PyStr("N/A"))]

\* What a table-valued property of the Ticker does when read.
TableOutcomes == {"raise", "None", "empty", "table"}

\* df.to_string() and its variants: the text of the table named what.
Rendering(what) == PyValue("str", "none", "ok", <<"to_string", what>>)

\* main.py:53-60
major_holders_of(outcome) ==
    IF outcome = "raise" THEN PyStr("Not available or error fetching.")
    ELSE IF outcome = "table" THEN Rendering("major_holders")
    ELSE PyNone

\* main.py:62-71
recommendations_of(outcome) ==
    IF outcome = "raise" THEN PyStr("Not available or error fetching.")
    ELSE IF outcome = "table" THEN Rendering("recommendations.tail()")
    ELSE PyStr("No recommendations data available.")

\* One conditional expression of main.py:75-77, when the property reads.
StatementText(outcome, what) ==
    IF outcome = "table" THEN Rendering(what) ELSE PyStr("Not available")

\* main.py:73-82: one try block around the three assignments; the except
\* clause fills every key not yet assigned.
financials_summary_of(income, balance, cashflow) ==
    LET err == PyStr("Error fetching.") IN
    IF income = "raise"
    THEN [income_statement_quarterly |-> err,
          balance_sheet_quarterly    |-> err,
          cash_flow_quarterly        |-> err]
    ELSE IF balance = "raise"
    THEN [income_statement_quarterly |-> StatementText(income, "quarterly_income_stmt"),
          balance_sheet_quarterly    |-> err,
          cash_flow_quarterly        |-> err]
    ELSE IF cashflow = "raise"
    THEN [income_statement_quarterly |-> StatementText(income, "quarterly_income_stmt"),
          balance_sheet_quarterly    |-> StatementText(balance, "quarterly_balance_sheet"),
          cash_flow_quarterly        |-> err]
    ELSE [income_statement_quarterly |-> StatementText(income, "quarterly_income_stmt"),
          balance_sheet_quarterly    |-> StatementText(balance, "quarterly_balance_sheet"),
          cash_flow_quarterly        |-> StatementText(cashflow, "quarterly_cashflow")]

\* The history read guarded on its own, like the supplementary reads.
PrimaryFailsAlt(p) ==
    \/ ~p.info_ok
    \/ SanitizeRaises(p.info)

\* The primary retrievals: stock.info (main.py:32), the sanitization loop and
\* stock.history (main.py:51). Any exception here reaches main.py:117.
PrimaryFails(p) ==
    \/ ~p.info_ok
    \/ SanitizeRaises(p.info)
    \/ p.hist = "raise"

\* main.py:23-119. p is the provider's answer to each read.
fetch_stock_data(ticker_symbol, p) ==
    IF PrimaryFails(p) THEN PyNone
    ELSE LET info == sanitize(p.info) IN
         [ticker        |-> PyStr(ticker_symbol),
          company_name  |-> Get(info, "longName", PyStr(ticker_symbol)),
          info          |-> brief_info(info),
          full_info_dump_for_display |-> info,
          sector        |-> Get(info, "sector", PyStr("N/A")),
          industry      |-> Get(info, "industry", PyStr("N/A")),
          summary       |-> Get(info, "longBusinessSummary", PyStr("N/A")),
          history_1y    |-> p.hist,
          major_holders |-> major_holders_of(p.holders),
          recommendations |-> recommendations_of(p.recs),
          financials_summary |-> financials_summary_of(p.income, p.balance, p.cashflow)]

\* The warnings fetch_stock_data shows (main.py:59, 70, 79) and its error (118).
fetch_banners(p) ==
    IF PrimaryFails(p) THEN {"Error fetching data"}
    ELSE {"Could not fetch major holders" : x \in {o \in {p.holders} : o = "raise"}}
         \cup {"Could not fetch recommendations" : x \in {o \in {p.recs} : o = "raise"}}
         \cup {"Could not fetch some financial statements" :
                  x \in {o \in {p.income, p.balance, p.cashflow} : o = "raise"}}

-----------------------------------------------------------------------------
\* search_web_for_stock

FixedDisclaimer ==
    PyStr("Web search simulation: No reliable URLs fetched automatically for scraping in this basic example. Consider using financial news APIs for robust data.")

\* f"Error during web search: {e}" for the AttributeError of stock_name.split
WebSearchError(stock_name) ==
    PyValue("str", "none", "ok",
            <<"Error during web search: ", stock_name.t, "object has no attribute 'split'">>)

\* main.py:121-171. The f-strings of lines 127, 128 and 151 format any value;
\* line 160 calls stock_name.split(' '), which only a str has; the return of
\* line 167 precedes every requests.get.
search_web_for_stock(stock_name) ==
    IF stock_name.t = "str"
    THEN [ret |-> <<FixedDisclaimer>>, http |-> 0,
          banners |-> {"Web search simulation is very basic"}]
    ELSE [ret |-> <<WebSearchError(stock_name)>>, http |-> 0,
          banners |-> {"Error during web search simulation"}]

-----------------------------------------------------------------------------
\* generate_report_with_llm

\* main.py:218, the bound of the slice of the business summary
SummaryLimit == 1000

NotConfiguredMessage ==
    PyStr("Groq API key not configured. Please set the GROQ_API_KEY environment variable.")

\* What client.chat.completions.create and the read of choices[0] can do.
LlmOutcomes == {"success", "api_error", "malformed"}

\* f"{value}"
Format(value) == str(value).v

Min(a, b) == IF a <= b THEN a ELSE b

\* The slice with its bound one too far.
SliceAlt(value) ==
    PyValue(value.t, value.first, value.dumps,
            SubSeq(value.v, 1, Min(Len(value.v), SummaryLimit + 1)))

\* value[:1000] on a value that has slices
Slice(value) ==
    PyValue(value.t, value.first, value.dumps,
            SubSeq(value.v, 1, Min(Len(value.v), SummaryLimit)))

\* Whether value[:1000] evaluates: a str or a list does, None, a number or a
\* dict raises TypeError.
Subscriptable(value) == value.t \in {"str", "list"}

\* main.py:214-286: the parts the two templates embed.
BuildPrompt(sd, web, stock_name, ticker_symbol) ==
    [stock_name |-> Format(stock_name),
     ticker     |-> Format(ticker_symbol),
     company    |-> Format(sd.company_name),
     sector     |-> Format(sd.sector),
     industry   |-> Format(sd.industry),
     summary    |-> Format(Slice(sd.summary)),
     info       |-> [k \in DOMAIN sd.info |-> Format(sd.info[k])],
     history    |-> <<"tail", sd.history_1y>>,
     holders    |-> Format(sd.major_holders),
     recs       |-> Format(sd.recommendations),
     income     |-> Format(sd.financials_summary.income_statement_quarterly),
     balance    |-> Format(sd.financials_summary.balance_sheet_quarterly),
     cashflow   |-> Format(sd.financials_summary.cash_flow_quarterly),
     web        |-> [i \in 1..Len(web) |-> Format(web[i])]]

NoPrompt == <<>>

GenResult(exc, ret, requests, built, shown) ==
    [raised |-> exc, ret |-> ret, requests |-> requests, prompt |-> built, banners |-> shown]

\* The guard without the test of the flag.
NotConfiguredAlt(keySet, cl) == cl = "None"

\* main.py:207-208
NotConfigured(keySet, cl) == ~keySet \/ cl = "None"

\* main.py:203-309. llm is the outcome of the one chat-completion request.
generate_report_with_llm(keySet, cl, sd, web, stock_name, ticker_symbol, llm) ==
    IF NotConfigured(keySet, cl)
    THEN GenResult("none", NotConfiguredMessage, 0, NoPrompt, {})
    ELSE IF sd = PyNone \/ ~Subscriptable(sd.summary)
    THEN GenResult("TypeError", PyNone, 0, NoPrompt, {})
    ELSE LET built == BuildPrompt(sd, web, stock_name, ticker_symbol) IN
         IF llm = "success"
         THEN GenResult("none", PyStr("report"), 1, built, {})
         ELSE GenResult("none",
                        PyValue("str", "none", "ok", <<"Failed to generate report: ", llm>>),
                        1, built, {"Error generating report with Groq API"})

-----------------------------------------------------------------------------
\* The provider's answers and the other inputs.

HistOutcomes == {"raise", "empty", "bars"}

\* The info mappings with at most n keys.
InfosUpTo(n) ==
    UNION {[D -> ProviderValues] : D \in {S \in SUBSET ProviderKeys : Cardinality(S) <= n}}

\* The info mappings over the two keys the later stages read.
NameAndSummaryInfos ==
    UNION {[D -> ProviderValues] : D \in SUBSET {"longName", "longBusinessSummary"}}

Provider(ok, info, hist, holders, recs, income, balance, cashflow) ==
    [info_ok |-> ok, info |-> info, hist |-> hist, holders |-> holders, recs |-> recs,
     income |-> income, balance |-> balance, cashflow |-> cashflow]

\* No retrieval has been made in this run.
NoProvider == Provider(FALSE, <<>>, "unread", "unread", "unread", "unread", "unread", "unread")

\* Every combination of the five supplementary outcomes, over an info mapping
\* of at most one key; and every info mapping, with the five supplementary
\* reads behaving alike.
FetchProviders ==
    {Provider(TRUE, i, h, mh, r, inc, bal, cf) :
        i \in {<<>>, [longName |-> PyStr("Apple Inc.")]}, h \in HistOutcomes,
        mh \in TableOutcomes, r \in TableOutcomes,
        inc \in TableOutcomes, bal \in TableOutcomes, cf \in TableOutcomes}
    \cup {Provider(TRUE, i, h, o, o, o, o, o) :
        i \in InfosUpTo(MaxInfoKeys), h \in HistOutcomes, o \in TableOutcomes}
    \cup {Provider(FALSE, <<>>, "unread", "unread", "unread", "unread", "unread", "unread")}

\* The answers the whole pipeline is run on.
PipelineProviders ==
    {Provider(TRUE, i, h, o, o, o, o, o) :
        i \in NameAndSummaryInfos, h \in HistOutcomes, o \in TableOutcomes}
    \cup {Provider(FALSE, <<>>, "unread", "unread", "unread", "unread", "unread", "unread")}

\* main.py:13-19. key is the environment variable ("absent", "empty" or
\* "set"), ctor whether Groq(...) returns or raises.
ModuleConfig(key, ctor) ==
    IF ctor = "raise" THEN [keySet |-> FALSE, client |-> "None"]
    ELSE [keySet |-> (key = "set"), client |-> "Groq"]

Configs == {ModuleConfig(key, ctor) : key \in {"absent", "empty", "set"}, ctor \in {"ok", "raise"}}

NoCalls == [fetch |-> 0, search |-> 0, generate |-> 0, prompt |-> 0, llm |-> 0, http |-> 0]

NoResults == <<>>

-----------------------------------------------------------------------------
\* The Streamlit script: one run per press of "Analyze Stock".

Init ==
    /\ \E c \in Configs : GROQ_API_KEY_SET = c.keySet /\ client = c.client
    /\ pc = "idle"
    /\ ticker_symbol_input \in Tickers
    /\ provider = NoProvider
    /\ stock_data = PyNone
    /\ web_search_results = NoResults
    /\ llm_report = PyNone
    /\ prompt = NoPrompt
    /\ banners = {}
    /\ calls = NoCalls
    /\ raised = "none"
    /\ resanitized = <<>>

\* The handler without its elif on the flag.
RunsPipelineAlt(ticker, keySet) == ticker # ""

\* main.py:328-332: the two guards before the pipeline.
RunsPipeline(ticker, keySet) == ticker # "" /\ keySet

\* main.py:327-336 and 398-399: the guards of the handler and the fetch.
AnalyzeStock(p) ==
    /\ pc = "idle"
    /\ IF ~RunsPipeline(ticker_symbol_input, GROQ_API_KEY_SET)
       THEN /\ banners' = IF ticker_symbol_input = ""
                          THEN {"Please enter a stock ticker symbol."}
                          ELSE {"Groq API Key is not configured. Cannot generate report."}
            /\ pc' = "done"
            /\ UNCHANGED <<provider, stock_data, calls>>
       ELSE /\ provider' = p
            /\ stock_data' = fetch_stock_data(ticker_symbol_input, p)
            /\ calls' = [calls EXCEPT !.fetch = @ + 1]
            /\ IF stock_data' # PyNone
               THEN /\ banners' = fetch_banners(p)
                    /\ pc' = "display"
               ELSE /\ banners' = fetch_banners(p) \cup {"Could not retrieve data"}
                    /\ pc' = "done"
    /\ UNCHANGED <<GROQ_API_KEY_SET, client, ticker_symbol_input, web_search_results,
                   llm_report, prompt, raised, resanitized>>

\* main.py:337-386: the four tabs; the fourth calls search_web_for_stock.
DisplayAndSearch ==
    /\ pc = "display"
    /\ LET r == search_web_for_stock(stock_data.company_name) IN
        /\ web_search_results' = r.ret
        /\ banners' = banners \cup r.banners
        /\ calls' = [calls EXCEPT !.search = @ + 1, !.http = @ + r.http]
    /\ pc' = "report"
    /\ UNCHANGED <<GROQ_API_KEY_SET, client, ticker_symbol_input, provider, stock_data,
                   llm_report, prompt, raised, resanitized>>

\* The effect of one call of generate_report_with_llm on the state.
ApplyGenerate(llm) ==
    LET r == generate_report_with_llm(GROQ_API_KEY_SET, client, stock_data,
                                      web_search_results,
                                      IF stock_data = PyNone THEN PyNone ELSE stock_data.company_name,
                                      IF stock_data = PyNone THEN PyNone ELSE stock_data.ticker,
                                      llm) IN
    /\ raised' = r.raised
    /\ llm_report' = r.ret
    /\ prompt' = r.prompt
    /\ banners' = banners \cup r.banners
    /\ calls' = [calls EXCEPT !.generate = @ + 1,
                              !.llm = @ + r.requests,
                              !.prompt = @ + (IF r.prompt = NoPrompt THEN 0 ELSE 1)]
    /\ pc' = IF r.raised = "none" THEN "done" ELSE "crashed"

\* main.py:389-397
GenerateReport(llm) ==
    /\ pc = "report"
    /\ ApplyGenerate(llm)
    /\ UNCHANGED <<GROQ_API_KEY_SET, client, ticker_symbol_input, provider, stock_data,
                   web_search_results, resanitized>>

\* The user edits the ticker box and presses the button again: Streamlit runs
\* the script from the top.
Rerun(ticker) ==
    /\ pc \in {"done", "crashed"}
    /\ ticker_symbol_input' = ticker
    /\ pc' = "idle"
    /\ provider' = NoProvider
    /\ stock_data' = PyNone
    /\ web_search_results' = NoResults
    /\ llm_report' = PyNone
    /\ prompt' = NoPrompt
    /\ banners' = {}
    /\ calls' = NoCalls
    /\ raised' = "none"
    /\ UNCHANGED <<GROQ_API_KEY_SET, client, resanitized>>

Next ==
    \/ \E p \in PipelineProviders : AnalyzeStock(p)
    \/ DisplayAndSearch
    \/ \E llm \in LlmOutcomes : GenerateReport(llm)
    \/ \E ticker \in Tickers : Rerun(ticker)

Spec == Init /\ [][Next]_vars

-----------------------------------------------------------------------------
\* fetch_stock_data on its own: one call per provider answer, then the
\* sanitization loop once more over the mapping the call left behind.

InitFetch ==
    /\ \E c \in Configs : GROQ_API_KEY_SET = c.keySet /\ client = c.client
    /\ pc = "call_fetch"
    /\ ticker_symbol_input = "AAPL"
    /\ provider \in FetchProviders
    /\ stock_data = PyNone
    /\ web_search_results = NoResults
    /\ llm_report = PyNone
    /\ prompt = NoPrompt
    /\ banners = {}
    /\ calls = NoCalls
    /\ raised = "none"
    /\ resanitized = <<>>

Fetch ==
    /\ pc = "call_fetch"
    /\ stock_data' = fetch_stock_data(ticker_symbol_input, provider)
    /\ banners' = fetch_banners(provider)
    /\ calls' = [calls EXCEPT !.fetch = @ + 1]
    /\ pc' = "fetched"
    /\ UNCHANGED <<GROQ_API_KEY_SET, client, ticker_symbol_input, provider,
                   web_search_results, llm_report, prompt, raised, resanitized>>

SanitizeAgain ==
    /\ pc = "fetched"
    /\ stock_data # PyNone
    /\ ~SanitizeRaises(stock_data.full_info_dump_for_display)
    /\ resanitized' = sanitize(stock_data.full_info_dump_for_display)
    /\ pc' = "resanitized"
    /\ UNCHANGED <<GROQ_API_KEY_SET, client, ticker_symbol_input, provider, stock_data,
                   web_search_results, llm_report, prompt, banners, calls, raised>>

NextFetch == Fetch \/ SanitizeAgain

SpecFetch == InitFetch /\ [][NextFetch]_vars

-----------------------------------------------------------------------------
\* generate_report_with_llm on its own: one call per configuration, snapshot
\* and outcome of the request.

\* A business summary of n characters, each naming its position.
SummaryText(n) == PyValue("str", "none", "ok", [i \in 1..n |-> ToString(i)])

\* Lengths below, at and above the slice bound.
SummaryLengths ==
    {0, 1, SummaryLimit - 1} \cup (SummaryLimit .. SummaryLimit + MaxSummaryExcess)

\* Answers whose business summary has one of these lengths.
LongSummaryProviders ==
    {Provider(TRUE, [longBusinessSummary |-> SummaryText(n)], "bars", o, o, o, o, o) :
        n \in SummaryLengths, o \in {"empty", "table"}}

GenSnapshots ==
    {fetch_stock_data("AAPL", p) : p \in PipelineProviders \cup LongSummaryProviders}

InitGen ==
    /\ \E c \in Configs : GROQ_API_KEY_SET = c.keySet /\ client = c.client
    /\ pc = "call_generate"
    /\ ticker_symbol_input = "AAPL"
    /\ provider = NoProvider
    /\ stock_data \in GenSnapshots
    /\ web_search_results \in
          {NoResults} \cup
          (IF stock_data = PyNone THEN {}
           ELSE {search_web_for_stock(stock_data.company_name).ret})
    /\ llm_report = PyNone
    /\ prompt = NoPrompt
    /\ banners = {}
    /\ calls = NoCalls
    /\ raised = "none"
    /\ resanitized = <<>>

Generate(llm) ==
    /\ pc = "call_generate"
    /\ ApplyGenerate(llm)
    /\ UNCHANGED <<GROQ_API_KEY_SET, client, ticker_symbol_input, provider, stock_data,
                   web_search_results, resanitized>>

NextGen == \E llm \in LlmOutcomes : Generate(llm)

SpecGen == InitGen /\ [][NextGen]_vars

-----------------------------------------------------------------------------
\* Properties of fetch_stock_data (checked under SpecFetch).

Fetched == pc \in {"fetched", "resanitized"}

\* The info read, the sanitization loop and the history read all went through.
PrimarySucceeded ==
    provider.info_ok /\ provider.hist \in {"empty", "bars"} /\ stock_data # PyNone

Sentinels ==
    {PyStr("Not available or error fetching."), PyStr("No recommendations data available.")}

\* A field that is the text of its table when the table came, a sentinel
\* string otherwise.
TextOrSentinel(field, outcome) ==
    /\ field.t = "str"
    /\ outcome = "table" => field.v[1] = "to_string"
    /\ outcome # "table" => field \in Sentinels

\* C1: when the info and history reads succeed, every outcome of the
\* major-holders and recommendations reads still yields a snapshot, in which
\* each of the two fields is the text of its table or a sentinel string,
\* never null.
C1_SupplementaryDegradesToSentinel ==
    (Fetched /\ provider.info_ok /\ ~SanitizeRaises(provider.info)
             /\ provider.hist \in {"empty", "bars"})
    => /\ stock_data # PyNone
       /\ TextOrSentinel(stock_data.major_holders, provider.holders)
       /\ TextOrSentinel(stock_data.recommendations, provider.recs)

StatementKeys ==
    {"income_statement_quarterly", "balance_sheet_quarterly", "cash_flow_quarterly"}

\* Whether entry is what a statement read with this outcome produces when it
\* is guarded on its own.
EntryIsOwn(entry, outcome) ==
    IF outcome = "table" THEN entry.t = "str" /\ entry.v[1] = "to_string"
    ELSE IF outcome = "raise" THEN entry = PyStr("Error fetching.")
    ELSE entry = PyStr("Not available")

ExactlyOneRaises(p) ==
    Cardinality({w \in {"income", "balance", "cashflow"} : p[w] = "raise"}) = 1

\* C2: when exactly one of the three statement reads raises, only its entry
\* is the error sentinel and each other entry is what its own read produced,
\* and financials_summary has exactly the three statement keys.
C2_StatementsGuardedIndependently ==
    (Fetched /\ PrimarySucceeded /\ ExactlyOneRaises(provider))
    => /\ DOMAIN stock_data.financials_summary = StatementKeys
       /\ EntryIsOwn(stock_data.financials_summary.income_statement_quarterly, provider.income)
       /\ EntryIsOwn(stock_data.financials_summary.balance_sheet_quarterly, provider.balance)
       /\ EntryIsOwn(stock_data.financials_summary.cash_flow_quarterly, provider.cashflow)

\* The value the snapshot holds for a value of the response: the value
\* itself, or its text when json.dumps refuses it.
AsDisplayed(value) ==
    IF ~IsScalar(value) /\ value.dumps = "TypeError" THEN str(value) ELSE value

\* C8: the info mapping of every returned snapshot has exactly the 20 listed
\* keys; each holds the response's value (as the sanitization pass left it)
\* when the response has the key, and "N/A" otherwise.
C8_BriefInfoHasTheFixedKeys ==
    (Fetched /\ stock_data # PyNone)
    => /\ DOMAIN stock_data.info = RelevantKeySet
       /\ Cardinality(DOMAIN stock_data.info) = 20
       /\ \A k \in RelevantKeySet :
            stock_data.info[k] = IF k \in DOMAIN provider.info
                                 THEN AsDisplayed(provider.info[k])
                                 ELSE PyStr("N/A")

C8_Witness ==
    /\ Fetched /\ stock_data # PyNone
    /\ "symbol" \in DOMAIN provider.info
    /\ "longName" \notin DOMAIN provider.info
    /\ "companyOfficers" \in DOMAIN provider.info
    /\ stock_data.info["symbol"] # PyStr("N/A")

\* C9: the sanitization loop applied to a mapping it has already processed
\* changes no value, and neither pass adds or removes a key.
C9_SanitizeIsIdempotent ==
    pc = "resanitized"
    => /\ resanitized = stock_data.full_info_dump_for_display
       /\ DOMAIN stock_data.full_info_dump_for_display = DOMAIN provider.info
       /\ DOMAIN resanitized = DOMAIN provider.info

C9_Witness ==
    /\ pc = "resanitized"
    /\ \E k \in DOMAIN provider.info :
          /\ provider.info[k].dumps = "TypeError"
          /\ stock_data.full_info_dump_for_display[k] # provider.info[k]
    /\ \E k \in DOMAIN provider.info : provider.info[k].t = "str"

-----------------------------------------------------------------------------
\* Properties of the Analyze run (checked under Spec).

\* C3: when the info read or the history read raises, the fetch returns None
\* and the run ends there: no web search, no prompt, no chat-completion
\* request, only the could-not-retrieve error.
C3_PrimaryFailureStopsTheRun ==
    (calls.fetch > 0 /\ (~provider.info_ok \/ provider.hist = "raise"))
    => /\ stock_data = PyNone
       /\ pc = "done"
       /\ calls.search = 0 /\ calls.generate = 0 /\ calls.prompt = 0
       /\ calls.llm = 0 /\ calls.http = 0
       /\ web_search_results = NoResults /\ prompt = NoPrompt /\ llm_report = PyNone
       /\ banners = {"Error fetching data", "Could not retrieve data"}

C3_Witness ==
    /\ calls.fetch > 0 /\ provider.info_ok /\ provider.hist = "raise"
    /\ pc = "done" /\ "Could not retrieve data" \in banners

\* C5: generate_report_with_llm never raises; whatever the snapshot and the
\* outcome of the request, the caller receives a string.
C5_GenerateNeverRaises ==
    calls.generate > 0 => (raised = "none" /\ pc = "done" /\ llm_report.t = "str")

\* C6: with a credential configured, every call of generate_report_with_llm
\* issues exactly one chat-completion request and ends in Success or Failure.
C6_ExactlyOneRequest ==
    (calls.generate > 0 /\ GROQ_API_KEY_SET /\ client # "None")
    => /\ calls.llm = 1
       /\ raised = "none"
       /\ \/ llm_report = PyStr("report")
          \/ llm_report.v[1] = "Failed to generate report: "

\* C7 as stated: with the credential missing, an Analyze action on a
\* non-empty ticker still runs the fetch and the web search, and the report
\* stage yields the not-configured message.
C7_PipelineRunsWithoutCredential ==
    (~GROQ_API_KEY_SET /\ ticker_symbol_input # "" /\ pc = "done")
    => /\ calls.fetch = 1
       /\ calls.search = 1
       /\ llm_report = NotConfiguredMessage

\* C7 amended: with the credential missing, an Analyze action on a non-empty
\* ticker runs no stage at all; the run ends with the not-configured error.
C7_NoStageRunsWithoutCredential ==
    (~GROQ_API_KEY_SET /\ ticker_symbol_input # "" /\ pc # "idle")
    => /\ pc = "done"
       /\ calls = NoCalls
       /\ provider = NoProvider /\ stock_data = PyNone
       /\ web_search_results = NoResults /\ llm_report = PyNone
       /\ banners = {"Groq API Key is not configured. Cannot generate report."}

C7_Witness ==
    /\ ~GROQ_API_KEY_SET /\ client = "Groq" /\ ticker_symbol_input = "AAPL"
    /\ pc = "done" /\ banners # {}

\* C10: search_web_for_stock returns, for every company name, one element,
\* the fixed disclaimer, and makes no network request.
C10_SearchReturnsTheDisclaimer ==
    calls.search > 0
    => /\ Len(web_search_results) = 1
       /\ web_search_results[1] = FixedDisclaimer
       /\ calls.http = 0

-----------------------------------------------------------------------------
\* Properties of generate_report_with_llm called on its own (SpecGen).

\* C4: with no credential configured, the call returns the fixed
\* not-configured message for every snapshot and every list of web results,
\* issues no chat-completion request and builds no prompt.
C4_NotConfiguredShortCircuits ==
    (calls.generate > 0 /\ (~GROQ_API_KEY_SET \/ client = "None"))
    => /\ llm_report = NotConfiguredMessage
       /\ raised = "none" /\ pc = "done"
       /\ calls.llm = 0 /\ calls.prompt = 0 /\ prompt = NoPrompt

C4_Witness ==
    /\ calls.generate > 0 /\ ~GROQ_API_KEY_SET /\ client = "Groq"
    /\ stock_data # PyNone /\ stock_data.summary = PyNone
    /\ llm_report = NotConfiguredMessage

\* The characters of a text.
Chars(text) == {text[i] : i \in 1..Len(text)}

\* The parts of the prompt that are one text each.
TextParts ==
    {"stock_name", "ticker", "company", "sector", "industry", "summary", "holders",
     "recs", "income", "balance", "cashflow"}

\* C11: the prompt embeds the first min(n, 1000) characters of a business
\* summary of n characters, in order, and no character past position 1000
\* reaches any part of the prompt.
C11_SummaryTruncatedInPrompt ==
    (calls.prompt > 0 /\ stock_data.summary.t = "str")
    => LET text == stock_data.summary.v
           n == Len(text)
           kept == IF n <= 1000 THEN n ELSE 1000 IN
       /\ Len(prompt.summary) = kept
       /\ \A i \in 1..kept : prompt.summary[i] = text[i]
       /\ \A j \in 1001..n :
            /\ \A part \in TextParts : text[j] \notin Chars(prompt[part])
            /\ \A k \in DOMAIN prompt.info : text[j] \notin Chars(prompt.info[k])
            /\ \A w \in DOMAIN prompt.web : text[j] \notin Chars(prompt.web[w])

C11_Witness ==
    /\ calls.prompt > 0 /\ calls.llm = 1
    /\ stock_data.summary.t = "str"
    /\ Len(stock_data.summary.v) > 1000
    /\ Len(prompt.summary) = 1000
    /\ prompt.summary[1000] = stock_data.summary.v[1000]

====
